---------------------------- MODULE Spec2Model ----------------------------
(***************************************************************************)
(* Model of the American Century boardingpass ETL (src/etl_script.py):     *)
(* extract_data, transform_data, calculate_metrics, load_data,             *)
(* run_etl_pipeline and main.                                              *)
(*                                                                         *)
(* Text is a sequence of tokens (a token stands for a run of characters;   *)
(* " " is whitespace), so substring search, case folding and strip are     *)
(* computed, not assumed.  A cell is a record [k, s, n]: k is the kind of  *)
(* value ("str", "nan", "num", "date", "nat"), s the text, n the number.   *)
(* Percentages are kept in tenths of a percent (33.3 is 333).              *)
(* pandas is taken with its classic dtypes: a column read from the sheet   *)
(* is object when it holds text, float64 when every cell is blank and      *)
(* datetime64 when it holds dates only; the .str accessor exists on object *)
(* columns only.  The order a sort gives to equal keys is left open.       *)
(***************************************************************************)
EXTENDS Integers, Sequences, FiniteSets, TLC

(***************************************************************************)
(* Bounds of the model                                                     *)
(***************************************************************************)
MaxRows == 3
MaxRuns == 2
MaxClock == 1

(***************************************************************************)
(* Cells                                                                   *)
(***************************************************************************)
S(s) == [k |-> "str", s |-> s, n |-> 0]
NaN == [k |-> "nan", s |-> <<>>, n |-> 0]
NaT == [k |-> "nat", s |-> <<>>, n |-> 0]
Date(d) == [k |-> "date", s |-> <<>>, n |-> d]
Float(x) == [k |-> "num", s |-> <<>>, n |-> x]

(***************************************************************************)
(* Text primitives                                                         *)
(***************************************************************************)
Lower(c) ==
    CASE c \in {"American", "AMERICAN"} -> "american"
      [] c \in {"Century", "CENTURY"} -> "century"
      [] c \in {"Ready", "READY"} -> "ready"
      [] c \in {"To", "TO"} -> "to"
      [] c \in {"Trade", "TRADE"} -> "trade"
      [] OTHER -> c

\* re.search of a literal pattern with re.IGNORECASE
Contains(s, pat) ==
    \E i \in 1..(Len(s) - Len(pat) + 1) :
        \A j \in 1..Len(pat) : Lower(s[i + j - 1]) = Lower(pat[j])

\* Series.str.contains(pat, case=False, na=False) on one cell, pat an
\* alternation of literals: a cell that is not text gives NaN, which na=False
\* turns into False
StrContains(v, pats) ==
    /\ v.k = "str"
    /\ \E pat \in pats : Contains(v.s, pat)

RECURSIVE LStrip(_)
LStrip(s) == IF s # <<>> /\ Head(s) = " " THEN LStrip(Tail(s)) ELSE s

RECURSIVE RStrip(_)
RStrip(s) ==
    IF s # <<>> /\ s[Len(s)] = " " THEN RStrip(SubSeq(s, 1, Len(s) - 1)) ELSE s

Strip_mut(s) == IF s # <<>> /\ Head(s) = " " THEN LStrip(s) ELSE RStrip(s)

\* str.strip(): leading and trailing whitespace only
Strip(s) == RStrip(LStrip(s))

\* astype(str) on one cell: str(value)
AsStr(v) ==
    CASE v.k = "str" -> v.s
      [] v.k = "nan" -> <<"nan">>
      [] v.k = "nat" -> <<"NaT">>
      [] v.k = "num" -> IF v.n = 0 THEN <<"0.0">> ELSE <<"num">>
      [] OTHER -> <<"date">>

(***************************************************************************)
(* Column names and search patterns of the program                         *)
(***************************************************************************)
required_cols ==
    {"Fund Name", "Plan Name", "Request Status", "Status Detail", "Cusip",
     "Advisor Firm Name", "Recordkeeper Name", "NSCC Firm Name"}
date_cols == {"Request Date", "Estimated Funding Date", "Report As of Date"}
text_cols ==
    {"Request Status", "Status Detail", "Advisor Firm Name",
     "Recordkeeper Name", "NSCC Firm Name"}
dimensions == {"Advisor Firm Name", "Recordkeeper Name", "NSCC Firm Name"}

PatStrict == {<<"American", " ", "Century">>}
PatLoose == {<<"American">>, <<"Century">>}
PatReady == {<<"Ready", " ", "to", " ", "Trade">>}

(***************************************************************************)
(* Data frames: [cols, dtype, rows]; a row is [idx, cell]                  *)
(***************************************************************************)
\* pd.DataFrame(): no columns, no rows
EmptyFrame == [cols |-> {}, dtype |-> [c \in {} |-> "object"], rows |-> <<>>]

Ok(v) == [kind |-> "ok", val |-> v, exc |-> "none"]
Raise(e, dummy) == [kind |-> "raise", val |-> dummy, exc |-> e]

ColumnOf(df, c) == [i \in 1..Len(df.rows) |-> df.rows[i].cell[c]]

\* the dtype read_excel gives a column from its cells
InferDtype(vals) ==
    IF Len(vals) = 0 THEN "object"
    ELSE IF \A i \in 1..Len(vals) : vals[i].k = "nan" THEN "float64"
    ELSE IF \A i \in 1..Len(vals) : vals[i].k \in {"date", "nan"} THEN "datetime64"
    ELSE "object"

\* pd.read_excel: a RangeIndex, one dtype per column, NaT for a missing date
read_excel(sheet) ==
    LET dt == [c \in sheet.cols |->
                 InferDtype([i \in 1..Len(sheet.rows) |-> sheet.rows[i][c]])]
    IN [cols |-> sheet.cols,
        dtype |-> dt,
        rows |-> [i \in 1..Len(sheet.rows) |->
                    [idx |-> i - 1,
                     cell |-> [c \in sheet.cols |->
                                 IF dt[c] = "datetime64" /\ sheet.rows[i][c].k = "nan"
                                 THEN NaT ELSE sheet.rows[i][c]]]]]

extract_data(disk, file_path) ==
    IF file_path \in DOMAIN disk
    THEN Ok(read_excel(disk[file_path]))
    ELSE Raise("FileNotFoundError", EmptyFrame)

\* df[df[col].str.contains(pats, case=False, na=False)]: the rows the mask
\* keeps, in order, with their index labels
RECURSIVE SelectRows(_, _, _)
SelectRows(rows, col, pats) ==
    IF rows = <<>> THEN <<>>
    ELSE IF StrContains(Head(rows).cell[col], pats)
         THEN <<Head(rows)>> \o SelectRows(Tail(rows), col, pats)
         ELSE SelectRows(Tail(rows), col, pats)

FilterFund(df, pats) == [df EXCEPT !.rows = SelectRows(df.rows, "Fund Name", pats)]

\* pd.to_datetime(errors='coerce') on one cell
ToDatetime(v) == IF v.k = "date" THEN v ELSE NaT

\* fillna by dtype on one cell
FillNa(v, dtype) ==
    IF v.k # "nan" THEN v
    ELSE IF dtype \in {"float64", "int64"} THEN Float(0)
    ELSE IF dtype = "object" THEN S(<<>>)
    ELSE v

\* the three normalisation loops of transform_data on one column
NormDtype1(df, c) == IF c \in date_cols THEN "datetime64" ELSE df.dtype[c]
NormCell(df, c, v) ==
    LET v1 == IF c \in date_cols THEN ToDatetime(v) ELSE v
        v2 == FillNa(v1, NormDtype1(df, c))
    IN IF c \in text_cols THEN S(Strip(AsStr(v2))) ELSE v2
NormDtype(df, c) == IF c \in text_cols THEN "object" ELSE NormDtype1(df, c)

Normalize(df) ==
    [cols |-> df.cols,
     dtype |-> [c \in df.cols |-> NormDtype(df, c)],
     rows |-> [i \in 1..Len(df.rows) |->
                 [idx |-> df.rows[i].idx,
                  cell |-> [c \in df.cols |-> NormCell(df, c, df.rows[i].cell[c])]]]]

FilterPlans_mut(df) == FilterFund(df, PatStrict)

\* the filter of transform_data: strict first, loose only when strict is empty
FilterPlans(df) ==
    LET strict == FilterFund(df, PatStrict)
    IN IF Len(strict.rows) = 0 THEN FilterFund(df, PatLoose) ELSE strict

transform_data_mut(df) ==
    IF "Fund Name" \notin df.cols THEN Raise("KeyError", EmptyFrame)
    ELSE IF df.dtype["Fund Name"] # "object" THEN Raise("AttributeError", EmptyFrame)
    ELSE LET df_ac == FilterPlans(df)
         IN IF Len(df_ac.rows) = 0 THEN Raise("EmptyResultError", EmptyFrame)
            ELSE Ok(Normalize(df_ac))

transform_data(df) ==
    IF "Fund Name" \notin df.cols THEN Raise("KeyError", EmptyFrame)
    ELSE IF df.dtype["Fund Name"] # "object" THEN Raise("AttributeError", EmptyFrame)
    ELSE LET df_ac == FilterPlans(df)
         IN IF Len(df_ac.rows) = 0 THEN Ok(EmptyFrame)
            ELSE Ok(Normalize(df_ac))

\* the warning of transform_data
missing_cols(df) == required_cols \ df.cols

(***************************************************************************)
(* calculate_metrics                                                       *)
(***************************************************************************)
top_n == 10

IsNull(v) == v.k \in {"nan", "nat"}

Unique_mut(vals) == vals

\* Series.unique(): the values in order of first appearance, NaN being one
RECURSIVE Unique(_)
Unique(vals) ==
    IF vals = <<>> THEN <<>>
    ELSE LET rest == Unique(SubSeq(vals, 1, Len(vals) - 1))
             last == vals[Len(vals)]
         IN IF \E i \in 1..Len(rest) : rest[i] = last THEN rest
            ELSE Append(rest, last)

CountOf(vals, v) == Cardinality({i \in 1..Len(vals) : vals[i] = v})

\* Series.value_counts(): the count of every value that is not null
value_counts(vals) ==
    [v \in {vals[i] : i \in {j \in 1..Len(vals) : ~IsNull(vals[j])}} |->
        CountOf(vals, v)]

NonNull(vals) == Cardinality({i \in 1..Len(vals) : ~IsNull(vals[i])})

\* round(num / den, 0) to the nearest integer, a tie going to the even one
RoundHalfEven(num, den) ==
    LET q == num \div den
        r == num % den
    IN IF 2 * r < den THEN q
       ELSE IF 2 * r > den THEN q + 1
       ELSE IF q % 2 = 0 THEN q ELSE q + 1

\* (count / total * 100).round(1), in tenths of a percent
PctTenths(count, total) == RoundHalfEven(count * 1000, total)

\* (value_counts(normalize=True) * 100).round(1): shares of the non-null cells
value_percentages(vals) ==
    LET vc == value_counts(vals)
    IN [v \in DOMAIN vc |-> PctTenths(vc[v], NonNull(vals))]

\* len(df[df['Status Detail'].str.contains('Ready to Trade', case=False, na=False)])
completed_count(df) == Len(SelectRows(df.rows, "Status Detail", PatReady))

completion_rate_mut(completed, total) ==
    IF total > 0 THEN (completed * 1000) \div total ELSE 0

\* round(len(completed) / len(df) * 100, 1) if len(df) > 0 else 0
completion_rate(completed, total) ==
    IF total > 0 THEN PctTenths(completed, total) ELSE 0

\* groupby([dim, 'Request Status']) drops the rows with a null key
GroupedRows(df, dim) ==
    {i \in 1..Len(df.rows) :
        ~IsNull(df.rows[i].cell[dim]) /\ ~IsNull(df.rows[i].cell["Request Status"])}

GroupCount(df, dim, key, status) ==
    Cardinality({i \in GroupedRows(df, dim) :
        df.rows[i].cell[dim] = key /\ df.rows[i].cell["Request Status"] = status})

\* group_data['Total'] = group_data.sum(axis=1)
GroupTotal(df, dim, key) ==
    Cardinality({i \in GroupedRows(df, dim) : df.rows[i].cell[dim] = key})

\* sort_values('Total', ascending=False): every order of the keys with the
\* totals descending (the order among equal totals is the sort's choice)
SortOrders(df, dim) ==
    LET keys == {df.rows[i].cell[dim] : i \in GroupedRows(df, dim)}
        n == Cardinality(keys)
    IN {o \in [1..n -> keys] :
          /\ \A i, j \in 1..n : i # j => o[i] # o[j]
          /\ \A i \in 1..n : \A j \in 1..n :
                i < j => GroupTotal(df, dim, o[i]) >= GroupTotal(df, dim, o[j])}

Breakdown(df, dim, order) ==
    LET statuses == {df.rows[i].cell["Request Status"] : i \in GroupedRows(df, dim)}
        n == Len(order)
    IN [data |-> [i \in 1..n |->
                    [key |-> order[i],
                     counts |-> [s \in statuses |-> GroupCount(df, dim, order[i], s)],
                     Total |-> GroupTotal(df, dim, order[i])]],
        top_entities |-> SubSeq(order, 1, IF n < top_n THEN n ELSE top_n)]

\* metrics['by_dimension']: one breakdown per dimension column of the frame
by_dimension(df) ==
    LET dims == dimensions \cap df.cols
        All == UNION {{Breakdown(df, d, o) : o \in SortOrders(df, d)} : d \in dims}
    IN {f \in [dims -> All] :
          \A d \in dims : \E o \in SortOrders(df, d) : f[d] = Breakdown(df, d, o)}

\* df['Report As of Date'].max().isoformat() if the column is there and not
\* all null, else None (-1); -2: max() or isoformat() raises on a text column
data_as_of(df) ==
    IF "Report As of Date" \notin df.cols THEN -1
    ELSE LET col == ColumnOf(df, "Report As of Date")
             dates == {col[i].n : i \in {j \in 1..Len(col) : col[j].k = "date"}}
         IN IF \A i \in 1..Len(col) : IsNull(col[i]) THEN -1
            ELSE IF \E i \in 1..Len(col) : col[i].k \notin {"date", "nat", "nan"} THEN -2
            ELSE CHOOSE d \in dates : \A e \in dates : e <= d

NoMetrics ==
    [total_plans |-> 0, total_requests |-> 0,
     status_counts |-> <<>>, status_percentages |-> <<>>,
     status_detail_counts |-> <<>>, status_detail_percentages |-> <<>>,
     completed_count |-> 0, completion_rate |-> 0,
     by_dimension |-> <<>>, generated_at |-> 0, data_as_of |-> -1]

\* the outcomes of calculate_metrics(df) at time now: a set, one outcome per
\* order the sorts may give
calculate_metrics(df, now) ==
    IF {"Plan Name", "Request Status", "Status Detail"} \ df.cols # {}
    THEN {Raise("KeyError", NoMetrics)}
    ELSE IF df.dtype["Status Detail"] # "object"
    THEN {Raise("AttributeError", NoMetrics)}
    ELSE IF data_as_of(df) = -2
    THEN {Raise("TypeError", NoMetrics)}
    ELSE {Ok([total_plans |-> Len(Unique(ColumnOf(df, "Plan Name"))),
              total_requests |-> Len(df.rows),
              status_counts |-> value_counts(ColumnOf(df, "Request Status")),
              status_percentages |-> value_percentages(ColumnOf(df, "Request Status")),
              status_detail_counts |-> value_counts(ColumnOf(df, "Status Detail")),
              status_detail_percentages |-> value_percentages(ColumnOf(df, "Status Detail")),
              completed_count |-> completed_count(df),
              completion_rate |-> completion_rate(completed_count(df), Len(df.rows)),
              by_dimension |-> bd,
              generated_at |-> now,
              data_as_of |-> data_as_of(df)]) : bd \in by_dimension(df)}


(***************************************************************************)
(* The dashboard (src/boardingpass_analysis.py): load_and_process_data,    *)
(* the sidebar, the key metrics and create_dimension_chart, with no filter *)
(* selected in the sidebar (df_filtered is df).  The completion rate of    *)
(* the dashboard is not rounded: it is kept as the fraction num / den of   *)
(* tenths of a percent.                                                    *)
(***************************************************************************)
\* return None
NoFrame == [kind |-> "none", val |-> EmptyFrame, exc |-> "none"]

\* ac_plans[col] = pd.to_datetime(ac_plans[col], errors='coerce')
ConvertDates(df) ==
    [cols |-> df.cols,
     dtype |-> [c \in df.cols |-> NormDtype1(df, c)],
     rows |-> [i \in 1..Len(df.rows) |->
                 [idx |-> df.rows[i].idx,
                  cell |-> [c \in df.cols |->
                              IF c \in date_cols THEN ToDatetime(df.rows[i].cell[c])
                              ELSE df.rows[i].cell[c]]]]]

\* load_and_process_data after df = pd.read_excel(file): the same filter as
\* transform_data, the dates, and nothing else; any exception gives None
load_and_process_data(df) ==
    IF "Fund Name" \notin df.cols \/ df.dtype["Fund Name"] # "object" THEN NoFrame
    ELSE LET ac_plans == FilterPlans(df)
         IN IF Len(ac_plans.rows) = 0 THEN NoFrame ELSE Ok(ConvertDates(ac_plans))

\* sorted(df[col].unique()): text and a blank cell (a float) do not compare
Sortable(df, c) ==
    LET u == Unique(ColumnOf(df, c))
    IN ~(\E i, j \in 1..Len(u) : u[i].k = "str" /\ u[j].k # "str")

\* (status_counts / total_requests * 100).round(1): shares of all the rows
status_pct(vals, total_requests) ==
    LET vc == value_counts(vals)
    IN [v \in DOMAIN vc |-> PctTenths(vc[v], total_requests)]

\* len(completed_requests) / total_requests * 100 if total_requests > 0 else 0
dashboard_completion_rate(completed, total_requests) ==
    IF total_requests > 0
    THEN [num |-> completed * 1000, den |-> total_requests]
    ELSE [num |-> 0, den |-> 1]

NoKeyMetrics ==
    [total_plans |-> 0, total_requests |-> 0,
     status_counts |-> <<>>, status_pct |-> <<>>,
     status_detail_counts |-> <<>>, status_detail_pct |-> <<>>,
     completed_requests |-> 0, completion_rate |-> [num |-> 0, den |-> 1]]

\* "Calculate key metrics" on df_filtered
key_metrics(df) ==
    IF {"Plan Name", "Request Status", "Status Detail"} \ df.cols # {}
    THEN Raise("KeyError", NoKeyMetrics)
    ELSE IF df.dtype["Status Detail"] # "object"
    THEN Raise("AttributeError", NoKeyMetrics)
    ELSE Ok([total_plans |-> Len(Unique(ColumnOf(df, "Plan Name"))),
             total_requests |-> Len(df.rows),
             status_counts |-> value_counts(ColumnOf(df, "Request Status")),
             status_pct |-> status_pct(ColumnOf(df, "Request Status"), Len(df.rows)),
             status_detail_counts |-> value_counts(ColumnOf(df, "Status Detail")),
             status_detail_pct |-> status_pct(ColumnOf(df, "Status Detail"), Len(df.rows)),
             completed_requests |-> completed_count(df),
             completion_rate |->
                 dashboard_completion_rate(completed_count(df), Len(df.rows))])

NoChart == [shown |-> FALSE, sorted_data |-> <<>>, plot_data |-> <<>>]

\* create_dimension_chart(dimension_col, title): the table sorted by Total and
\* its head(10), one outcome per order the sort may give; None, None when the
\* column is not there
create_dimension_chart(df, dimension_col) ==
    IF dimension_col \notin df.cols THEN {NoChart}
    ELSE {[shown |-> TRUE,
           sorted_data |-> Breakdown(df, dimension_col, o).data,
           plot_data |-> SubSeq(Breakdown(df, dimension_col, o).data, 1,
                                IF Len(o) < top_n THEN Len(o) ELSE top_n)] :
             o \in SortOrders(df, dimension_col)}

NoDashboard == [metrics |-> NoKeyMetrics, charts |-> <<>>]

\* the script once df is loaded: the sidebar, the key metrics, the three tabs
dashboard(df) ==
    IF \E c \in {"Advisor Firm Name", "Recordkeeper Name"} \cap df.cols : ~Sortable(df, c)
    THEN {Raise("TypeError", NoDashboard)}
    ELSE IF key_metrics(df).kind = "raise"
    THEN {Raise(key_metrics(df).exc, NoDashboard)}
    ELSE LET All == UNION {create_dimension_chart(df, d) : d \in dimensions}
         IN {Ok([metrics |-> key_metrics(df).val, charts |-> ch]) :
               ch \in {f \in [dimensions -> All] :
                         \A d \in dimensions : f[d] \in create_dimension_chart(df, d)}}

(***************************************************************************)
(* load_data: file names and what is written                               *)
(***************************************************************************)
Latest == -1
DataStem == "american_century_data"
MetricsStem == "american_century_metrics"

\* os.path.join(output_dir, f'{stem}_{tag}.{ext}'); tag Latest is 'latest',
\* another tag is datetime.now().strftime('%Y%m%d_%H%M%S') of that second
PathOf(stem, tag) == [stem |-> stem, tag |-> tag]

\* df.to_csv(index=False) on one cell: a null is written as the empty field
CsvCell(v) == IF IsNull(v) THEN S(<<>>) ELSE IF v.k = "num" THEN S(AsStr(v)) ELSE v

\* df.to_csv(index=False): the columns and the cells, without index or dtypes
to_csv(df) ==
    [cols |-> df.cols,
     rows |-> [i \in 1..Len(df.rows) |->
                 [c \in df.cols |-> CsvCell(df.rows[i].cell[c])]]]

NoCsv == [cols |-> {}, rows |-> <<>>]
Absent == [kind |-> "absent", csv |-> NoCsv, json |-> NoMetrics]
Partial == [kind |-> "partial", csv |-> NoCsv, json |-> NoMetrics]
CsvFile(df) == [kind |-> "csv", csv |-> to_csv(df), json |-> NoMetrics]
JsonFile(metrics) == [kind |-> "json", csv |-> NoCsv, json |-> metrics]

WriteOutcomes == {"ok", "fail_open", "fail_partial"}

WriteFile_mut(files, path, content, outcome) ==
    CASE outcome = "ok" /\ files[path].kind = "absent" -> [files EXCEPT ![path] = content]
      [] outcome = "fail_partial" -> [files EXCEPT ![path] = Partial]
      [] OTHER -> files

\* one write of load_data to path: done, refused before the file is opened,
\* or broken off after open(path, 'w') has truncated the file
WriteFile(files, path, content, outcome) ==
    CASE outcome = "ok" -> [files EXCEPT ![path] = content]
      [] outcome = "fail_partial" -> [files EXCEPT ![path] = Partial]
      [] OTHER -> files

\* the dict load_data returns
OutputPaths(timestamp) ==
    [processed_data_path |-> PathOf(DataStem, timestamp),
     metrics_path |-> PathOf(MetricsStem, timestamp),
     latest_data_path |-> PathOf(DataStem, Latest),
     latest_metrics_path |-> PathOf(MetricsStem, Latest)]

NoPaths ==
    [processed_data_path |-> PathOf("", Latest), metrics_path |-> PathOf("", Latest),
     latest_data_path |-> PathOf("", Latest), latest_metrics_path |-> PathOf("", Latest)]

(***************************************************************************)
(* Input files                                                             *)
(***************************************************************************)
AllColumns == required_cols \cup {"Report As of Date"}

Row(fund, plan, status, detail, advisor, asof) ==
    [c \in AllColumns |->
        CASE c = "Fund Name" -> fund
          [] c = "Plan Name" -> plan
          [] c = "Request Status" -> status
          [] c = "Status Detail" -> detail
          [] c = "Advisor Firm Name" -> advisor
          [] c = "Report As of Date" -> asof
          [] c = "Recordkeeper Name" -> S(<<"Keeper", " ">>)
          [] c = "NSCC Firm Name" -> NaN
          [] OTHER -> S(<<"cusip">>)]

R1 == Row(S(<<"AMERICAN", " ", "century", " ", "Growth">>), S(<<"P1">>),
          S(<<"Complete">>), S(<<"ready", " ", "to", " ", "TRADE">>),
          S(<<"A">>), Date(1))
R2 == Row(S(<<"American", " ", "Century", " ", "Value">>), S(<<"P2">>),
          S(<<"Pending">>), S(<<"Awaiting">>), S(<<"B">>), Date(2))
R3 == Row(S(<<"American", " ", "Funds">>), S(<<"P1">>),
          S(<<"Pending", " ">>), S(<<" ", "Ready", " ", "to", " ", "Trade", " ">>),
          S(<<"A">>), S(<<"n/a">>))
R4 == Row(S(<<"Century", " ", "American">>), NaN, NaN, NaN, S(<<"B">>), NaN)
R5 == Row(S(<<"Vanguard">>), S(<<"P2">>), S(<<"Complete">>),
          S(<<"Ready", " ", "to", " ", "Trade">>), S(<<"B">>), Date(1))
R6 == Row(NaN, S(<<"P1">>), S(<<"Pending">>), S(<<"Ready", "to", "Trade">>),
          NaN, NaN)
Rows == {R1, R2, R3, R4, R5, R6}

ColumnSets == {AllColumns} \cup {AllColumns \ {c} : c \in AllColumns}

Sheet(cs, rows) ==
    [cols |-> cs, rows |-> [i \in 1..Len(rows) |-> [c \in cs |-> rows[i][c]]]]

\* the sheets the functions are applied to: up to MaxRows rows
Sheets ==
    {Sheet(cs, rows) : cs \in ColumnSets,
                       rows \in UNION {[1..n -> Rows] : n \in 0..MaxRows}}

\* the sheets a.xlsx may hold: rows that pass the filter with a column missing,
\* and with all the columns no row, loosely matching rows, no matching row and
\* rows without a fund name (b.xlsx holds OtherSheet, a strict match)
PipelineSheets ==
    {Sheet(AllColumns \ {c}, <<R1, R2>>) :
        c \in {"Fund Name", "Plan Name", "Request Status", "Status Detail",
               "Advisor Firm Name"}}
    \cup {Sheet(AllColumns, rows) :
            rows \in {<<>>, <<R3, R4>>, <<R5>>, <<R6>>}}

OtherSheet == Sheet(AllColumns, <<R2>>)


(***************************************************************************)
(* State                                                                   *)
(***************************************************************************)
VARIABLES
    disk,       \* the input files: path -> sheet
    fs,         \* the output directory: path -> file
    clock,      \* the wall clock, in seconds
    pc,         \* where the process is: "idle" between two invocations
    frame,      \* the locals of run_etl_pipeline and load_data
    trace,      \* the stages this invocation has called, in order
    log,        \* the log records of this invocation
    result,     \* how run_etl_pipeline ended
    exit_code,  \* the exit status of the process (-1 while it runs)
    stdout,     \* what main printed
    runs,       \* invocations so far
    history,    \* one record per finished invocation
    arg,        \* the frame a function is applied to
    out         \* the last function call and what it gave

vars == <<disk, fs, clock, pc, frame, trace, log, result, exit_code, stdout,
          runs, history, arg, out>>
pipeline_vars == <<disk, fs, clock, pc, frame, trace, log, result, exit_code,
                   stdout, runs, history>>

InputPaths == {"a.xlsx", "b.xlsx", "absent.xlsx"}
AllPaths ==
    {PathOf(s, tag) : s \in {DataStem, MetricsStem}, tag \in {Latest} \cup 0..MaxClock}

NoLocals ==
    [input_file |-> "", raw_data |-> EmptyFrame, transformed_data |-> EmptyFrame,
     metrics |-> NoMetrics, timestamp |-> Latest]
Pending == [kind |-> "pending", paths |-> NoPaths, exc |-> "none"]
NoCall ==
    [fn |-> "none", input |-> EmptyFrame, res |-> Ok(EmptyFrame), met |-> Ok(NoMetrics),
     dash |-> Ok(NoDashboard)]

PipelineInit ==
    /\ fs = [p \in AllPaths |-> Absent]
    /\ clock = 0
    /\ pc = "idle"
    /\ frame = NoLocals
    /\ trace = <<>>
    /\ log = {}
    /\ result = Pending
    /\ exit_code = -1
    /\ stdout = ""
    /\ runs = 0
    /\ history = <<>>

Init ==
    /\ PipelineInit
    /\ \E s \in PipelineSheets :
          disk = [p \in {"a.xlsx", "b.xlsx"} |-> IF p = "a.xlsx" THEN s ELSE OtherSheet]
    /\ arg = EmptyFrame
    /\ out = NoCall

(***************************************************************************)
(* run_etl_pipeline and main, one action per stage                         *)
(***************************************************************************)
Fail_mut(e) ==
    /\ result' = [kind |-> "none", paths |-> NoPaths, exc |-> "none"]
    /\ pc' = "main"

\* except Exception: logger.error(...); raise -- in the stage and in the
\* pipeline; the same exception reaches main
Fail(e) ==
    /\ result' = [kind |-> "raise", paths |-> NoPaths, exc |-> e]
    /\ pc' = "main"

\* main() is entered with --input input_file
Start(input_file) ==
    /\ pc = "idle"
    /\ runs < MaxRuns
    /\ pc' = "extract"
    /\ frame' = [NoLocals EXCEPT !.input_file = input_file]
    /\ trace' = <<>>
    /\ log' = {}
    /\ result' = Pending
    /\ exit_code' = -1
    /\ stdout' = ""
    /\ UNCHANGED <<disk, fs, clock, runs, history, arg, out>>

Extract ==
    /\ pc = "extract"
    /\ trace' = Append(trace, "extract")
    /\ LET r == extract_data(disk, frame.input_file)
       IN IF r.kind = "raise"
          THEN /\ Fail(r.exc)
               /\ log' = log \cup {<<"ERROR", "extract">>, <<"ERROR", "pipeline">>}
               /\ frame' = frame
          ELSE /\ frame' = [frame EXCEPT !.raw_data = r.val]
               /\ pc' = "transform"
               /\ UNCHANGED <<result, log>>
    /\ UNCHANGED <<disk, fs, clock, exit_code, stdout, runs, history, arg, out>>

\* if len(transformed_data) == 0: return None
is_empty_mut(df) == FALSE
is_empty(df) == Len(df.rows) = 0

\* transform_data, then the emptiness test of the pipeline
Transform ==
    /\ pc = "transform"
    /\ trace' = Append(trace, "transform")
    /\ LET r == transform_data(frame.raw_data)
           warn == IF missing_cols(frame.raw_data) # {}
                   THEN {<<"WARNING", "missing columns">>} ELSE {}
       IN IF r.kind = "raise"
          THEN /\ Fail(r.exc)
               /\ log' = log \cup warn \cup {<<"ERROR", "transform">>, <<"ERROR", "pipeline">>}
               /\ frame' = frame
          ELSE IF is_empty(r.val)
          THEN /\ result' = [kind |-> "none", paths |-> NoPaths, exc |-> "none"]
               /\ pc' = "main"
               /\ log' = log \cup warn \cup {<<"ERROR", "no relevant plans">>,
                                             <<"WARNING", "no data to process">>}
               /\ frame' = [frame EXCEPT !.transformed_data = r.val]
          ELSE /\ frame' = [frame EXCEPT !.transformed_data = r.val]
               /\ pc' = "aggregate"
               /\ log' = log \cup warn
               /\ UNCHANGED result
    /\ UNCHANGED <<disk, fs, clock, exit_code, stdout, runs, history, arg, out>>

Aggregate ==
    /\ pc = "aggregate"
    /\ trace' = Append(trace, "aggregate")
    /\ \E r \in calculate_metrics(frame.transformed_data, clock) :
          IF r.kind = "raise"
          THEN /\ Fail(r.exc)
               /\ log' = log \cup {<<"ERROR", "metrics">>, <<"ERROR", "pipeline">>}
               /\ frame' = frame
          ELSE /\ frame' = [frame EXCEPT !.metrics = r.val]
               /\ pc' = "load"
               /\ UNCHANGED <<result, log>>
    /\ UNCHANGED <<disk, fs, clock, exit_code, stdout, runs, history, arg, out>>

LoadFail ==
    /\ Fail("OSError")
    /\ log' = log \cup {<<"ERROR", "load">>, <<"ERROR", "pipeline">>}

\* load_data up to the timestamp: os.makedirs, which may fail, then
\* datetime.now().strftime('%Y%m%d_%H%M%S')
LoadBegin ==
    /\ pc = "load"
    /\ trace' = Append(trace, "load")
    /\ \E ok \in BOOLEAN :
          IF ok
          THEN /\ frame' = [frame EXCEPT !.timestamp = clock]
               /\ pc' = "write_csv"
               /\ UNCHANGED <<result, log>>
          ELSE /\ LoadFail
               /\ frame' = frame
    /\ UNCHANGED <<disk, fs, clock, exit_code, stdout, runs, history, arg, out>>

WriteStep_mut(at, path, content, next) ==
    /\ pc = at
    /\ \E o \in WriteOutcomes :
          IF o = "ok"
          THEN /\ fs' = WriteFile(fs, path, content, o)
               /\ pc' = next
               /\ UNCHANGED <<result, log>>
          ELSE /\ fs' = [p \in AllPaths |->
                           IF p.tag = frame.timestamp THEN Absent ELSE fs[p]]
               /\ LoadFail
    /\ UNCHANGED <<disk, clock, frame, trace, exit_code, stdout, runs, history, arg, out>>

\* one write of load_data: at pc `at`, content to path, then on to `next`
WriteStep(at, path, content, next) ==
    /\ pc = at
    /\ \E o \in WriteOutcomes :
          /\ fs' = WriteFile(fs, path, content, o)
          /\ IF o = "ok"
             THEN /\ pc' = next
                  /\ UNCHANGED <<result, log>>
             ELSE LoadFail
    /\ UNCHANGED <<disk, clock, frame, trace, exit_code, stdout, runs, history, arg, out>>

WriteCsv ==
    WriteStep("write_csv", PathOf(DataStem, frame.timestamp),
              CsvFile(frame.transformed_data), "write_metrics")

WriteMetrics ==
    WriteStep("write_metrics", PathOf(MetricsStem, frame.timestamp),
              JsonFile(frame.metrics), "write_latest_csv")

WriteLatestCsv ==
    WriteStep("write_latest_csv", PathOf(DataStem, Latest),
              CsvFile(frame.transformed_data), "write_latest_metrics")

WriteLatestMetrics ==
    WriteStep("write_latest_metrics", PathOf(MetricsStem, Latest),
              JsonFile(frame.metrics), "load_return")

\* load_data returns its dict, and run_etl_pipeline returns it
LoadReturn ==
    /\ pc = "load_return"
    /\ result' = [kind |-> "paths", paths |-> OutputPaths(frame.timestamp), exc |-> "none"]
    /\ pc' = "main"
    /\ UNCHANGED <<disk, fs, clock, frame, trace, log, exit_code, stdout, runs,
                   history, arg, out>>

main_exit_code_mut(res) == IF res.kind = "paths" THEN 0 ELSE 1

\* the rest of main: print, and exit(1) on an exception
main_exit_code(res) == IF res.kind = "raise" THEN 1 ELSE 0
main_stdout(res) ==
    CASE res.kind = "raise" -> "ETL failed"
      [] res.kind = "paths" -> "ETL completed successfully"
      [] OTHER -> "ETL completed but no data was processed"

Main ==
    /\ pc = "main"
    /\ exit_code' = main_exit_code(result)
    /\ stdout' = main_stdout(result)
    /\ runs' = runs + 1
    /\ history' = Append(history, result)
    /\ pc' = "idle"
    /\ UNCHANGED <<disk, fs, clock, frame, trace, log, result, arg, out>>

\* a second passes.  The clock is read by Aggregate (generated_at) and by
\* LoadBegin (timestamp) only, so a second that passes anywhere else in an
\* invocation is the same as one that passes before it starts
Tick ==
    /\ pc \in {"idle", "load"}
    /\ clock < MaxClock
    /\ clock' = clock + 1
    /\ UNCHANGED <<disk, fs, pc, frame, trace, log, result, exit_code, stdout,
                   runs, history, arg, out>>

Next ==
    \/ \E p \in InputPaths : Start(p)
    \/ Extract
    \/ Transform
    \/ Aggregate
    \/ LoadBegin
    \/ WriteCsv
    \/ WriteMetrics
    \/ WriteLatestCsv
    \/ WriteLatestMetrics
    \/ LoadReturn
    \/ Main
    \/ Tick

Spec == Init /\ [][Next]_vars


(***************************************************************************)
(* The functions on their own: transform_data and calculate_metrics        *)
(* applied to every frame read from a sheet of Sheets, and to what         *)
(* transform_data returns                                                  *)
(***************************************************************************)
InitFn ==
    /\ PipelineInit
    /\ disk = [p \in {"a.xlsx", "b.xlsx"} |-> OtherSheet]
    /\ \E s \in Sheets : arg = read_excel(s)
    /\ out = NoCall

\* df = transform_data(df)
FnTransform ==
    /\ LET r == transform_data(arg)
       IN /\ out' = [fn |-> "transform_data", input |-> arg, res |-> r,
                     met |-> Ok(NoMetrics), dash |-> Ok(NoDashboard)]
          /\ arg' = IF r.kind = "ok" THEN r.val ELSE arg
    /\ UNCHANGED pipeline_vars

\* calculate_metrics(df)
FnMetrics ==
    /\ \E m \in calculate_metrics(arg, clock) :
          out' = [fn |-> "calculate_metrics", input |-> arg, res |-> Ok(arg), met |-> m,
                  dash |-> Ok(NoDashboard)]
    /\ UNCHANGED <<arg, pipeline_vars>>

\* df = load_and_process_data(uploaded_file)
FnLoadAndProcess ==
    /\ LET r == load_and_process_data(arg)
       IN /\ out' = [fn |-> "load_and_process_data", input |-> arg, res |-> r,
                     met |-> Ok(NoMetrics), dash |-> Ok(NoDashboard)]
          /\ arg' = IF r.kind = "ok" THEN r.val ELSE arg
    /\ UNCHANGED pipeline_vars

\* if df is not None: the dashboard on the df just loaded
FnDashboard ==
    /\ out.fn = "load_and_process_data"
    /\ out.res.kind = "ok"
    /\ \E d \in dashboard(arg) :
          out' = [fn |-> "dashboard", input |-> arg, res |-> Ok(arg),
                  met |-> Ok(NoMetrics), dash |-> d]
    /\ UNCHANGED <<arg, pipeline_vars>>

NextFn ==
    \/ FnTransform
    \/ FnMetrics
    \/ FnLoadAndProcess
    \/ FnDashboard

SpecFn == InitFn /\ [][NextFn]_vars


(***************************************************************************)
(* Properties.  The text predicates below are written on their own, not    *)
(* with the operators of the model.                                        *)
(***************************************************************************)
LowerText(s) == [i \in 1..Len(s) |-> Lower(s[i])]
IsInfix(pat, s) ==
    \E i \in 0..(Len(s) - Len(pat)) :
        SubSeq(LowerText(s), i + 1, i + Len(pat)) = LowerText(pat)
Mentions(v, pat) == v.k = "str" /\ IsInfix(pat, v.s)

CellOf(df, i, c) == IF c \in df.cols THEN df.rows[i].cell[c] ELSE NaN
StrictRows(df) ==
    {i \in 1..Len(df.rows) :
        Mentions(CellOf(df, i, "Fund Name"), <<"american", " ", "century">>)}
LooseRows(df) ==
    {i \in 1..Len(df.rows) :
        \/ Mentions(CellOf(df, i, "Fund Name"), <<"american">>)
        \/ Mentions(CellOf(df, i, "Fund Name"), <<"century">>)}

\* res returns exactly the rows `want` of df, in the order of df
KeptExactly(df, res, want) ==
    /\ res.kind = "ok"
    /\ Len(res.val.rows) = Cardinality(want)
    /\ {res.val.rows[k].idx : k \in 1..Len(res.val.rows)} = {df.rows[i].idx : i \in want}
    /\ \A k, l \in 1..Len(res.val.rows) :
          k < l => res.val.rows[k].idx < res.val.rows[l].idx

\* this invocation's transform stage returned, and no row of the input matched
YieldsNoRows ==
    /\ Len(trace) >= 2
    /\ <<"ERROR", "transform">> \notin log
    /\ LooseRows(frame.raw_data) = {}

\* C1: when the transform stage yields no matching rows, run_etl_pipeline
\* returns the "no output" result, not an error; neither the aggregate stage
\* nor the load stage runs; and no step of such a run changes an output file.
C1_EmptyShortCircuits ==
    /\ [](YieldsNoRows =>
            /\ result.kind = "none"
            /\ trace = <<"extract", "transform">>
            /\ pc \in {"main", "idle"})
    /\ [][YieldsNoRows' => fs' = fs]_vars

C1_Witness ==
    /\ YieldsNoRows
    /\ Len(frame.raw_data.rows) > 0
    /\ pc = "idle"
    /\ \E p \in AllPaths : fs[p].kind # "absent"

\* C2: transform_data keeps exactly the rows whose Fund Name contains
\* "American Century" (any case, a missing Fund Name never matching) when
\* there is such a row; when there is none it keeps exactly the rows whose
\* Fund Name contains "American" or "Century", and returns them when there is
\* at least one.
C2_FilterWithFallback ==
    out.fn = "transform_data" =>
        LET df == out.input
        IN /\ StrictRows(df) # {} => KeptExactly(df, out.res, StrictRows(df))
           /\ (StrictRows(df) = {} /\ LooseRows(df) # {}) =>
                 KeptExactly(df, out.res, LooseRows(df))
           /\ (LooseRows(df) = {} /\ out.res.kind = "ok") => Len(out.res.val.rows) = 0

C2_Witness ==
    /\ out.fn = "transform_data"
    /\ StrictRows(out.input) = {}
    /\ LooseRows(out.input) # {}
    /\ Cardinality(LooseRows(out.input)) < Len(out.input.rows)
    /\ out.res.kind = "ok"
    /\ Len(out.res.val.rows) = Cardinality(LooseRows(out.input))

\* the Fund Name column is there and read_excel made it a text column
FundNameIsText(df) ==
    /\ "Fund Name" \in df.cols
    /\ \/ Len(df.rows) = 0
       \/ \E i \in 1..Len(df.rows) : CellOf(df, i, "Fund Name").k = "str"

\* C3 as stated: given a dataset in which no row's Fund Name contains
\* "American" or "Century", transform raises EmptyResultError rather than
\* returning a dataset.
C3_RaisesEmptyResultError ==
    (out.fn = "transform_data" /\ LooseRows(out.input) = {}) =>
        (out.res.kind = "raise" /\ out.res.exc = "EmptyResultError")

\* C3 as amended: given such a dataset, transform_data raises no
\* EmptyResultError: it returns the empty frame pd.DataFrame() (no rows, no
\* columns) when the Fund Name column is a text column, and raises KeyError
\* (no such column) or AttributeError (a column without any text) otherwise.
C3_ReturnsEmptyFrame ==
    (out.fn = "transform_data" /\ LooseRows(out.input) = {}) =>
        IF FundNameIsText(out.input)
        THEN out.res = Ok(EmptyFrame)
        ELSE out.res.kind = "raise" /\ out.res.exc \in {"KeyError", "AttributeError"}

C3_Witness ==
    /\ out.fn = "transform_data"
    /\ LooseRows(out.input) = {}
    /\ Len(out.input.rows) > 1
    /\ FundNameIsText(out.input)
    /\ out.res = Ok(EmptyFrame)


StageOrder == <<"extract", "transform", "aggregate", "load">>
StageLogName == <<"extract", "transform", "metrics", "load">>
StageFailed(i) == <<"ERROR", StageLogName[i]>> \in log

\* the exceptions stage i of this invocation can raise
StageExceptions(i) ==
    CASE i = 1 -> {r.exc : r \in {extract_data(disk, frame.input_file)}}
      [] i = 2 -> {r.exc : r \in {transform_data(frame.raw_data)}}
      [] i = 3 -> {r.exc : r \in calculate_metrics(frame.transformed_data, clock)}
      [] OTHER -> {"OSError"}

\* C4: the stages run in the order extract, transform, aggregate, load; when
\* a stage fails (an empty transform is no failure), run_etl_pipeline raises
\* that stage's exception, no later stage has run, and no paths are returned.
C4_OrderAndPropagation ==
    /\ Len(trace) <= 4
    /\ trace = SubSeq(StageOrder, 1, Len(trace))
    /\ \A i \in 1..4 :
          StageFailed(i) =>
              /\ result.kind = "raise"
              /\ result.exc \in StageExceptions(i) \ {"none"}
              /\ result.paths = NoPaths
              /\ Len(trace) = i
              /\ pc \in {"main", "idle"}
    /\ result.kind = "raise" => \E i \in 1..4 : StageFailed(i)

C4_Witness ==
    /\ pc = "idle"
    /\ result.kind = "raise"
    /\ result.exc = "KeyError"
    /\ trace = <<"extract", "transform", "aggregate">>

\* C5 as stated: a dataset that lacks required columns never aborts the run:
\* the missing columns are reported as a warning, and transform and aggregate
\* still complete.
C5_MissingColumnsNeverAbort ==
    (Len(trace) >= 2 /\ pc \in {"main", "idle"}
        /\ required_cols \ frame.raw_data.cols # {}) =>
        /\ <<"WARNING", "missing columns">> \in log
        /\ ~StageFailed(2)
        /\ ~StageFailed(3)

\* C6: whenever load_data has returned, it returned four different paths
\* (timestamped data, timestamped metrics, latest data, latest metrics), the
\* four files exist, each latest file has the content of this run's
\* timestamped file, and that content is the output of this, the most recent,
\* run.
C6_LatestMatchesRun ==
    result.kind = "paths" =>
        LET p == result.paths
        IN /\ Cardinality({p.processed_data_path, p.metrics_path,
                           p.latest_data_path, p.latest_metrics_path}) = 4
           /\ p.processed_data_path = PathOf(DataStem, frame.timestamp)
           /\ p.metrics_path = PathOf(MetricsStem, frame.timestamp)
           /\ p.latest_data_path = PathOf(DataStem, Latest)
           /\ p.latest_metrics_path = PathOf(MetricsStem, Latest)
           /\ frame.timestamp # Latest
           /\ \A q \in {p.processed_data_path, p.metrics_path,
                        p.latest_data_path, p.latest_metrics_path} :
                 fs[q].kind \in {"csv", "json"}
           /\ fs[p.latest_data_path] = fs[p.processed_data_path]
           /\ fs[p.latest_metrics_path] = fs[p.metrics_path]
           /\ fs[p.latest_data_path] = CsvFile(frame.transformed_data)
           /\ fs[p.latest_metrics_path] = JsonFile(frame.metrics)

\* a second successful run, on other data than the first
C6_Witness ==
    /\ pc = "idle"
    /\ Len(history) = 2
    /\ history[1].kind = "paths"
    /\ history[2].kind = "paths"
    /\ history[1].paths # history[2].paths
    /\ fs[history[1].paths.processed_data_path] # fs[history[2].paths.processed_data_path]

\* C7 as stated: two different runs that write to the same output directory
\* have different timestamped data paths and different timestamped metrics
\* paths.
C7_TimestampedPathsUnique ==
    \A i, j \in 1..Len(history) :
        (i # j /\ history[i].kind = "paths" /\ history[j].kind = "paths") =>
            /\ history[i].paths.processed_data_path # history[j].paths.processed_data_path
            /\ history[i].paths.metrics_path # history[j].paths.metrics_path

\* C8: the process exits with status 0, having printed a message, when the
\* pipeline returned paths and when it returned the "no output" result, and
\* with status 1 when the pipeline raised.
C8_ExitStatus ==
    (pc = "idle" /\ runs > 0) =>
        /\ result.kind \in {"paths", "none", "raise"}
        /\ result.kind \in {"paths", "none"} => (exit_code = 0 /\ stdout # "")
        /\ result.kind = "raise" => exit_code = 1
        /\ result.kind = "paths" => stdout # "ETL completed but no data was processed"

C8_Witness ==
    /\ pc = "idle"
    /\ runs > 0
    /\ result.kind = "none"
    /\ exit_code = 0
    /\ stdout = "ETL completed but no data was processed"

\* the rows whose Plan Name appears in no earlier row
FirstPlans(df) ==
    {i \in 1..Len(df.rows) :
        \A j \in 1..(i - 1) : CellOf(df, j, "Plan Name") # CellOf(df, i, "Plan Name")}

\* C9: calculate_metrics(D) reports total_requests = the number of records
\* of D and total_plans = the number of distinct Plan Name values of D, so
\* total_plans <= total_requests.
C9_Totals ==
    (out.fn = "calculate_metrics" /\ out.met.kind = "ok") =>
        /\ out.met.val.total_requests = Len(out.input.rows)
        /\ out.met.val.total_plans = Cardinality(FirstPlans(out.input))
        /\ out.met.val.total_plans <= out.met.val.total_requests

C9_Witness ==
    /\ out.fn = "calculate_metrics"
    /\ out.met.kind = "ok"
    /\ out.met.val.total_plans = 2
    /\ out.met.val.total_requests = 3

ReadyRows(df) ==
    {i \in 1..Len(df.rows) :
        Mentions(CellOf(df, i, "Status Detail"), <<"ready", " ", "to", " ", "trade">>)}

Abs(x) == IF x < 0 THEN -x ELSE x

IsTransformed(df) == Len(df.rows) > 0 /\ transform_data(df) = Ok(df)

\* the values a column holds (a blank cell is no value)
ValuesOf(df, c) ==
    {CellOf(df, i, c) : i \in 1..Len(df.rows)} \ {NaN, NaT}
RecordsWith(df, c, v) == Cardinality({i \in 1..Len(df.rows) : CellOf(df, i, c) = v})

RECURSIVE SumOf(_)
SumOf(f) ==
    IF DOMAIN f = {} THEN 0
    ELSE LET x == CHOOSE y \in DOMAIN f : TRUE
         IN f[x] + SumOf([y \in DOMAIN f \ {x} |-> f[y]])

\* the table `data` with its first entries `top` is the breakdown of df by dim
\* that the claim describes
IsBreakdownOf(df, dim, data, top) ==
    /\ {data[i].key : i \in 1..Len(data)} = ValuesOf(df, dim)
    /\ \A i, j \in 1..Len(data) : i # j => data[i].key # data[j].key
    /\ \A i \in 1..Len(data) :
          /\ data[i].Total = RecordsWith(df, dim, data[i].key)
          /\ data[i].Total = SumOf(data[i].counts)
    /\ \A i, j \in 1..Len(data) : i < j => data[i].Total >= data[j].Total
    /\ Len(top) = (IF Len(data) < 10 THEN Len(data) ELSE 10)
    /\ \A i \in 1..Len(top) : top[i] = data[i].key

\* C11 as stated: for each grouping dimension of the dataset, the breakdown
\* (of calculate_metrics in the pipeline, and of the dashboard's
\* create_dimension_chart on the dataset it has loaded) lists
\* every distinct dimension value exactly once; each row's Total is the number
\* of records with that value and the sum of its per-Request-Status counts;
\* the rows are in descending order of Total; and the top entities are the
\* first min(10, number of rows) of that order.
C11_BreakdownCountsEveryRecord ==
    /\ (out.fn = "calculate_metrics" /\ out.met.kind = "ok" /\ IsTransformed(out.input)) =>
          \A dim \in dimensions \cap out.input.cols :
              IsBreakdownOf(out.input, dim, out.met.val.by_dimension[dim].data,
                            out.met.val.by_dimension[dim].top_entities)
    /\ (out.fn = "dashboard" /\ out.dash.kind = "ok") =>
          \A dim \in dimensions \cap out.input.cols :
              LET chart == out.dash.val.charts[dim]
              IN /\ chart.shown
                 /\ IsBreakdownOf(out.input, dim, chart.sorted_data,
                                  [i \in 1..Len(chart.plot_data) |->
                                      chart.plot_data[i].key])

\* the key metrics k of the dashboard are the numbers m of calculate_metrics
SameNumbers(k, m) ==
    /\ k.total_plans = m.total_plans
    /\ k.total_requests = m.total_requests
    /\ k.status_counts = m.status_counts
    /\ k.status_pct = m.status_percentages
    /\ k.status_detail_counts = m.status_detail_counts
    /\ k.status_detail_pct = m.status_detail_percentages
    /\ k.completed_requests = m.completed_count
    /\ k.completion_rate.num = m.completion_rate * k.completion_rate.den

\* C12 as stated: on the same filtered dataset the dashboard and the batch
\* pipeline compute identical numbers: total plans, total requests, the counts
\* and percentages per Request Status and per Status Detail, the completed
\* count and the completion rate.
C12_DashboardMatchesBatch ==
    (out.fn = "dashboard" /\ out.dash.kind = "ok") =>
        \A m \in calculate_metrics(out.input, clock) :
            m.kind = "ok" => SameNumbers(out.dash.val.metrics, m.val)

\* C13: transform_data is idempotent: whenever transform_data has returned
\* rows (after the strict filter or after the loose "American" or "Century"
\* fallback) and is applied again to what it returned, it returns the same
\* dataset: the same rows in the same order with the same normalised values.
C13_TransformIdempotent ==
    [][(/\ out.fn = "transform_data"
        /\ out.res.kind = "ok"
        /\ Len(out.res.val.rows) > 0
        /\ out'.fn = "transform_data"
        /\ out'.input = out.res.val)
       => out'.res = out.res]_vars

\* transform_data applied to a dataset it has returned through the fallback,
\* in which it had cells to normalise
C13_Witness ==
    /\ out.fn = "transform_data"
    /\ out.res = Ok(out.input)
    /\ Len(out.input.rows) > 1
    /\ StrictRows(out.input) = {}
    /\ \E i \in 1..Len(out.input.rows) :
          /\ CellOf(out.input, i, "Status Detail") = S(<<"Ready", " ", "to", " ", "Trade">>)
          /\ CellOf(out.input, i, "Report As of Date") = NaT
    /\ \E i \in 1..Len(out.input.rows) : CellOf(out.input, i, "Status Detail") = S(<<>>)

\* pct is the distribution of column c of the non-empty dataset df that the
\* claim describes: per value, count / total records x 100 rounded to one
\* decimal, the whole summing to 100.0 within 0.1 per category
IsDistributionOf(df, c, pct) ==
    /\ DOMAIN pct = ValuesOf(df, c)
    /\ \A v \in DOMAIN pct :
          2 * Abs(pct[v] * Len(df.rows) - RecordsWith(df, c, v) * 1000) <= Len(df.rows)
    /\ Abs(SumOf(pct) - 1000) <= Cardinality(DOMAIN pct)

\* C14 as stated: for every non-empty dataset, the percentages of the Request
\* Status distribution and of the Status Detail distribution (of
\* calculate_metrics in the pipeline, and of the dashboard on the dataset it
\* has loaded) are count / total records x 100
\* rounded to one decimal, and sum to 100.0 within 0.1 times the number of
\* categories.
C14_PercentagesSumTo100 ==
    /\ (out.fn = "calculate_metrics" /\ out.met.kind = "ok" /\ IsTransformed(out.input)) =>
          /\ IsDistributionOf(out.input, "Request Status", out.met.val.status_percentages)
          /\ IsDistributionOf(out.input, "Status Detail",
                              out.met.val.status_detail_percentages)
    /\ (out.fn = "dashboard" /\ out.dash.kind = "ok" /\ Len(out.input.rows) > 0) =>
          /\ IsDistributionOf(out.input, "Request Status", out.dash.val.metrics.status_pct)
          /\ IsDistributionOf(out.input, "Status Detail",
                              out.dash.val.metrics.status_detail_pct)

WriteSteps == <<"write_csv", "write_metrics", "write_latest_csv", "write_latest_metrics">>
\* the file the claim gives to write i of this call, and what goes into it
WritePath(i) ==
    CASE i = 1 -> [stem |-> "american_century_data", tag |-> frame.timestamp]
      [] i = 2 -> [stem |-> "american_century_metrics", tag |-> frame.timestamp]
      [] i = 3 -> [stem |-> "american_century_data", tag |-> -1]
      [] OTHER -> [stem |-> "american_century_metrics", tag |-> -1]
WriteContent(i) ==
    IF i \in {1, 3} THEN CsvFile(frame.transformed_data) ELSE JsonFile(frame.metrics)
\* the writes of this call that are done when the process is at pc
WritesDone ==
    CASE pc = "load_return" -> 4
      [] \E i \in 1..4 : pc = WriteSteps[i] -> (CHOOSE i \in 1..4 : pc = WriteSteps[i]) - 1
      [] OTHER -> 0

\* C15: load_data writes the timestamped data, the timestamped metrics, the
\* latest data and the latest metrics, in this order, one file per step; a
\* step that fails raises the error to the caller with no paths returned,
\* touches no file but its own, and so leaves every file written by an
\* earlier step of the call as it was written; no other step of a run
\* changes a file.
C15_WriteOrderNoRollback ==
    /\ [](\A j \in 1..WritesDone : fs[WritePath(j)] = WriteContent(j))
    /\ [][\A i \in 1..4 : pc = WriteSteps[i] =>
            /\ \A p \in AllPaths \ {WritePath(i)} : fs'[p] = fs[p]
            /\ \/ /\ pc' = (IF i < 4 THEN WriteSteps[i + 1] ELSE "load_return")
                  /\ fs'[WritePath(i)] = WriteContent(i)
                  /\ result' = result
               \/ /\ pc' = "main"
                  /\ result' = [kind |-> "raise", paths |-> NoPaths, exc |-> "OSError"]
                  /\ fs'[WritePath(i)] \in {fs[WritePath(i)], Partial}]_vars
    /\ [][fs' # fs => \E i \in 1..4 : pc = WriteSteps[i]]_vars

\* the second run has failed in its last write: the latest data file is this
\* run's, the latest metrics file is still the first run's
C15_Witness ==
    /\ pc = "idle"
    /\ Len(history) = 2
    /\ history[1].kind = "paths"
    /\ history[2].kind = "raise"
    /\ trace = <<"extract", "transform", "aggregate", "load">>
    /\ history[1].paths.metrics_path # WritePath(2)
    /\ fs[WritePath(1)] = WriteContent(1)
    /\ fs[WritePath(2)] = WriteContent(2)
    /\ fs[WritePath(3)] = WriteContent(3)
    /\ fs[WritePath(4)] # WriteContent(4)
    /\ fs[WritePath(4)] = fs[history[1].paths.metrics_path]
    /\ fs[WritePath(4)].kind = "json"
    /\ fs[history[1].paths.processed_data_path] # fs[WritePath(3)]

=============================================================================
